---------------------------- MODULE Spec2Model ----------------------------
(***************************************************************************)
(* Burnout risk prediction services (ml/src): the training service         *)
(* (train.py), the prediction service (predict.py), the evaluation         *)
(* service (evaluate.py) and the BurnoutPredictionModel (simple_model.py), *)
(* as one state machine.                                                   *)
(*                                                                         *)
(* The services are asyncio coroutines on one event loop: a coroutine runs *)
(* without interruption until it awaits something that suspends.  The      *)
(* variable cur names the background task that holds the loop; callers of  *)
(* the service (start_training, get_training_status, cleanup) run only     *)
(* when no task holds it.                                                  *)
(***************************************************************************)
EXTENDS Integers, Sequences, FiniteSets, TLC

VARIABLES
    training_jobs,      \* TrainingService.training_jobs: the ids that are keys of the table
    job_obj,            \* the job dict objects, by id (a task keeps its dict after clear())
    pc,                 \* position of each background task _train_model(id)
    exc,                \* the exception a task is handling (its str(e)), or NoExc
    data,               \* the (X, y) a legacy task has loaded
    training_results,   \* what train_comprehensive_model returned to a task
    cur,                \* the task that holds the event loop, or NoTask
    reply,              \* what the get_training_status call in progress returns
    models_dir_exists,  \* whether the directory "models" exists
    model_files,        \* the model versions persisted as models/<version>.joblib
    corrupt_files,      \* the persisted files joblib.load fails on
    models,             \* PredictionService.models: version -> loaded model
    model_versions,     \* PredictionService.model_versions, in loading order
    prediction,         \* what the predict call in progress returns or raises
    frame,              \* the locals of the predict call in progress
    bpm,                \* a BurnoutPredictionModel object
    bpm_files,          \* the files save_model has written: filepath -> model_data
    bpm_reply,          \* what the call on the model in progress returns or raises
    evaluation_jobs,    \* EvaluationService.evaluation_jobs: evaluation_id -> record
    eval_call,          \* the evaluate calls: position, arguments, locals and outcome
    eval_reply,         \* what the get_evaluation call in progress returns or raises
    metrics_call,       \* the _calculate_business_metrics call in progress, or NoReply
    summary_call        \* the _generate_evaluation_summary call in progress, or NoReply

train_vars == <<training_jobs, job_obj, pc, exc, data, training_results, cur, reply,
                models_dir_exists, model_files>>

task_vars == <<training_jobs, job_obj, pc, exc, data, training_results, cur, reply>>

disk_vars == <<models_dir_exists, model_files, corrupt_files>>

predict_vars == <<models, model_versions, prediction, frame>>

eval_vars == <<evaluation_jobs, eval_call, eval_reply>>

model_vars == <<bpm, bpm_files, bpm_reply>>

vars == <<train_vars, corrupt_files, predict_vars, model_vars, eval_vars, metrics_call, summary_call>>

---------------------------------------------------------------------------
(* Bounds *)

\* number of training jobs started in a run
MaxJobs == 2

JobIds == 1..MaxJobs

\* no task holds the loop: a value that is no job id
NoTask == MaxJobs + 1
None == "None"
NoExc == "NoExc"
NoReply == [kind |-> "none"]
NoVersion == [prefix |-> "none", id |-> 0]

---------------------------------------------------------------------------
(* Inputs of start_training *)

\* dataset paths and what the file system holds for each:
\*   data.csv   a well-formed dataset
\*   data.txt   present, unsupported extension
\*   tiny.csv   parsable, too few rows of a class for a stratified 80/20 split
\*   gone.csv   no such file
\*   bad.csv    present, but read_csv fails on it or a feature column is missing
DatasetPaths == {"data.csv", "data.txt", "tiny.csv", "gone.csv", "bad.csv"}

path_exists(p) == p \in DatasetPaths \ {"gone.csv"}

endswith(p, ext) ==
    CASE ext = ".csv"  -> p \in {"data.csv", "tiny.csv", "gone.csv", "bad.csv"}
      [] ext = ".json" -> FALSE
      [] OTHER         -> FALSE

\* the (model_type, dataset_path) pairs start_training is called with: the dataset
\* of a 'comprehensive' job is never read (_get_training_user_ids ignores it), and
\* 'baseline' and 'advanced' differ only in the forest's default hyperparameters
TrainingRequests ==
    {<<"comprehensive", "data.csv">>, <<"other", "data.csv">>,
     <<"advanced", "data.csv">>}
    \cup {<<"baseline", ds>> : ds \in DatasetPaths}

\* a model version string f"{prefix}_{training_id[:8]}_{timestamp}"
Version(prefix, id) == [prefix |-> prefix, id |-> id]

\* training_id[:8]
IdPrefix(training_id) == training_id

---------------------------------------------------------------------------
(* TrainingService *)

InitTraining ==
    /\ training_jobs = {}
    /\ job_obj = [j \in {} |-> 0]
    /\ pc = [j \in JobIds |-> "none"]
    /\ exc = [j \in JobIds |-> NoExc]
    /\ data = [j \in JobIds |-> None]
    /\ training_results = [j \in JobIds |-> None]
    /\ cur = NoTask
    /\ reply = NoReply

\* the training service touches neither the prediction service nor other objects
OthersIdle == UNCHANGED <<corrupt_files, predict_vars, model_vars, eval_vars, metrics_call, summary_call>>

\* a caller of the service runs: no task holds the loop and no call is in progress
CallerRuns == cur = NoTask /\ reply = NoReply

\* the event loop runs task j: it holds the loop already, or the loop is free
TaskRuns(j) == cur \in {NoTask, j} /\ reply = NoReply

\* the dict start_training stores for a new job
NewJob(model_type, dataset_path) ==
    [status |-> "started", model_type |-> model_type, dataset_path |-> dataset_path,
     progress |-> 0, metrics |-> "{}", training_results |-> None,
     model_version |-> NoVersion, end_time |-> None, error |-> None]

TrainingService_initialize ==
    /\ CallerRuns
    /\ models_dir_exists' = TRUE
    /\ UNCHANGED <<training_jobs, job_obj, pc, exc, data, training_results, cur, reply,
                   model_files>>
    /\ OthersIdle

\* uuid4 never repeats an id: ids are handed out in order, each once
start_training(model_type, dataset_path) ==
    /\ CallerRuns
    /\ \E j \in JobIds :
        /\ pc[j] = "none"
        /\ \A i \in JobIds : i < j => pc[i] # "none"
        /\ training_jobs' = training_jobs \cup {j}
        /\ job_obj' = (j :> NewJob(model_type, dataset_path)) @@ job_obj
        /\ pc' = [pc EXCEPT ![j] = "L72"]
    /\ UNCHANGED <<exc, data, training_results, cur, reply, models_dir_exists, model_files>>
    /\ OthersIdle

\* the dict get_training_status returns for a job
StatusReport(training_id) ==
    [kind |-> "status", training_id |-> training_id,
     status |-> job_obj[training_id].status,
     progress |-> job_obj[training_id].progress,
     model_type |-> job_obj[training_id].model_type,
     end_time |-> job_obj[training_id].end_time,
     metrics |-> job_obj[training_id].metrics,
     model_version |-> job_obj[training_id].model_version,
     error |-> job_obj[training_id].error]

get_training_status(training_id) ==
    /\ CallerRuns
    /\ reply' = IF training_id \notin training_jobs
                THEN [kind |-> "ValueError", training_id |-> training_id]
                ELSE StatusReport(training_id)
    /\ UNCHANGED <<training_jobs, job_obj, pc, exc, data, training_results, cur,
                   models_dir_exists, model_files>>
    /\ OthersIdle

\* the call returns to its caller
get_training_status_return ==
    /\ reply # NoReply
    /\ reply' = NoReply
    /\ UNCHANGED <<training_jobs, job_obj, pc, exc, data, training_results, cur,
                   models_dir_exists, model_files>>
    /\ OthersIdle

TrainingService_cleanup ==
    /\ CallerRuns
    /\ training_jobs' = {}
    /\ UNCHANGED <<job_obj, pc, exc, data, training_results, cur, reply,
                   models_dir_exists, model_files>>
    /\ OthersIdle

---------------------------------------------------------------------------
(* _train_model(training_id): one action per statement *)

Goto(j, to) == pc' = [pc EXCEPT ![j] = to]

At(j, here) == pc[j] = here /\ TaskRuns(j)

\* job[field] = value, then on to the next statement
Assign(j, here, field, value, to) ==
    /\ At(j, here)
    /\ job_obj' = [job_obj EXCEPT ![j][field] = value]
    /\ Goto(j, to)
    /\ cur' = j
    /\ UNCHANGED <<training_jobs, exc, data, training_results, reply,
                   models_dir_exists, model_files>>
    /\ OthersIdle

\* an exception with message msg is raised inside the try block
Raise(j, msg) ==
    /\ Goto(j, "L162")
    /\ exc' = [exc EXCEPT ![j] = msg]
    /\ cur' = j

\* the coroutine ends (returning or raising): its locals are gone and the loop is
\* free again
Finish(j, how) ==
    /\ Goto(j, how)
    /\ cur' = NoTask
    /\ exc' = [exc EXCEPT ![j] = NoExc]
    /\ data' = [data EXCEPT ![j] = None]
    /\ training_results' = [training_results EXCEPT ![j] = None]

train_L72(j) ==
    /\ At(j, "L72")
    /\ IF j \in training_jobs
       THEN Goto(j, "L75") /\ cur' = j /\ UNCHANGED exc
       ELSE Raise(j, "KeyError")
    /\ UNCHANGED <<training_jobs, job_obj, data, training_results, reply,
                   models_dir_exists, model_files>>
    /\ OthersIdle

train_L75(j) == Assign(j, "L75", "status", "initializing", "L76")

train_L76(j) == Assign(j, "L76", "progress", 5, "L79")

\* await self.advanced_pipeline.feature_pipeline.initialize(): the task may suspend
train_L79_await(j) ==
    /\ At(j, "L79")
    /\ Goto(j, "L79_await")
    /\ cur' = NoTask
    /\ UNCHANGED <<training_jobs, job_obj, exc, data, training_results, reply,
                   models_dir_exists, model_files>>
    /\ OthersIdle

\* the awaited initialize() returns or raises
feature_pipeline_initialize(j) ==
    /\ At(j, "L79_await")
    /\ \E ok \in BOOLEAN :
        IF ok THEN Goto(j, "L81") /\ cur' = j /\ UNCHANGED exc
              ELSE Raise(j, "feature pipeline failed")
    /\ UNCHANGED <<training_jobs, job_obj, data, training_results, reply,
                   models_dir_exists, model_files>>
    /\ OthersIdle

train_L81(j) == Assign(j, "L81", "status", "loading_data", "L82")

train_L82(j) == Assign(j, "L82", "progress", 10, "L87")

train_L87(j) == Assign(j, "L87", "status", "feature_engineering", "L88")

train_L88(j) == Assign(j, "L88", "progress", 30, "L91")

train_L91(j) ==
    /\ At(j, "L91")
    /\ IF job_obj[j].model_type = "comprehensive"
       THEN Goto(j, "L94")
       ELSE Goto(j, "L117")
    /\ cur' = j
    /\ UNCHANGED <<training_jobs, job_obj, exc, data, training_results, reply,
                   models_dir_exists, model_files>>
    /\ OthersIdle

\* await self.advanced_pipeline.train_comprehensive_model(...): the task may suspend
train_L94_await(j) ==
    /\ At(j, "L94")
    /\ Goto(j, "L94_await")
    /\ cur' = NoTask
    /\ UNCHANGED <<training_jobs, job_obj, exc, data, training_results, reply,
                   models_dir_exists, model_files>>
    /\ OthersIdle

\* the awaited train_comprehensive_model returns a results dict, with or without a
\* 'best_model' entry, or raises
train_comprehensive_model(j) ==
    /\ At(j, "L94_await")
    /\ \E r \in {"with_best_model", "without_best_model", "raise"} :
        IF r = "raise"
        THEN Raise(j, "comprehensive training failed") /\ UNCHANGED training_results
        ELSE /\ Goto(j, "L100")
             /\ cur' = j
             /\ training_results' = [training_results EXCEPT ![j] = r]
             /\ UNCHANGED exc
    /\ UNCHANGED <<training_jobs, job_obj, data, reply, models_dir_exists, model_files>>
    /\ OthersIdle

\* line 100 followed by a suspension point: the status is set and the loop released
train_L100_then_yields(j) ==
    /\ At(j, "L100")
    /\ job_obj' = [job_obj EXCEPT ![j]["status"] = "completed"]
    /\ Goto(j, "L101")
    /\ cur' = NoTask
    /\ UNCHANGED <<training_jobs, exc, data, training_results, reply,
                   models_dir_exists, model_files>>
    /\ OthersIdle

train_L100(j) == Assign(j, "L100", "status", "completed", "L101")

train_L101(j) == Assign(j, "L101", "progress", 100, "L102")

train_L102(j) == Assign(j, "L102", "training_results", training_results[j], "L103")

train_L103(j) ==
    Assign(j, "L103", "model_version", Version("comprehensive", IdPrefix(j)), "L104")

train_L104(j) == Assign(j, "L104", "end_time", "utcnow", "L107")

\* line 107 with training_results['best_model'] in place of .get('best_model'): a
\* KeyError when the results hold no best model
train_L107_subscript(j) ==
    /\ At(j, "L107")
    /\ IF training_results[j] = "with_best_model"
       THEN /\ job_obj' = [job_obj EXCEPT ![j]["metrics"] = "best_model_metrics"]
            /\ Finish(j, "done")
       ELSE /\ Raise(j, "KeyError")
            /\ UNCHANGED <<job_obj, data, training_results>>
    /\ UNCHANGED <<training_jobs, reply, models_dir_exists, model_files>>
    /\ OthersIdle

train_L107(j) ==
    /\ At(j, "L107")
    /\ job_obj' = IF training_results[j] = "with_best_model"
                  THEN [job_obj EXCEPT ![j]["metrics"] = "best_model_metrics"]
                  ELSE job_obj
    /\ Finish(j, "done")
    /\ UNCHANGED <<training_jobs, reply, models_dir_exists, model_files>>
    /\ OthersIdle

train_L117(j) == Assign(j, "L117", "status", "loading_data", "L118")

train_L118(j) == Assign(j, "L118", "progress", 20, "L121")

\* the try block of _load_training_data (lines 180-203): what it returns, or the
\* exception raised inside it
_load_training_data_try(dataset_path) ==
    IF ~path_exists(dataset_path)
    THEN [ok |-> TRUE, data |-> "dummy", error |-> None]
    ELSE IF ~(endswith(dataset_path, ".csv") \/ endswith(dataset_path, ".json"))
    THEN [ok |-> FALSE, data |-> None, error |-> "Unsupported file format"]
    ELSE IF dataset_path = "bad.csv"
    THEN [ok |-> FALSE, data |-> None, error |-> "ParserError"]
    ELSE IF dataset_path = "tiny.csv"
    THEN [ok |-> TRUE, data |-> "tiny", error |-> None]
    ELSE [ok |-> TRUE, data |-> "file", error |-> None]

\* _load_training_data: every exception of the try block is caught at line 205 and
\* the dummy data returned
_load_training_data(dataset_path) ==
    LET tried == _load_training_data_try(dataset_path)
    IN  IF tried.ok THEN tried.data ELSE "dummy"

train_L121(j) ==
    /\ At(j, "L121")
    /\ data' = [data EXCEPT ![j] = _load_training_data(job_obj[j].dataset_path)]
    /\ Goto(j, "L123")
    /\ cur' = j
    /\ UNCHANGED <<training_jobs, job_obj, exc, training_results, reply,
                   models_dir_exists, model_files>>
    /\ OthersIdle

train_L123(j) == Assign(j, "L123", "status", "preprocessing", "L124")

train_L124(j) == Assign(j, "L124", "progress", 40, "L127")

\* train_test_split(..., stratify=y) raises when a class has too few rows
train_L127(j) ==
    /\ At(j, "L127")
    /\ IF data[j] = "tiny"
       THEN Raise(j, "The least populated class in y has only 1 member")
       ELSE Goto(j, "L131") /\ cur' = j /\ UNCHANGED exc
    /\ UNCHANGED <<training_jobs, job_obj, data, training_results, reply,
                   models_dir_exists, model_files>>
    /\ OthersIdle

train_L131(j) == Assign(j, "L131", "status", "training", "L132")

train_L132(j) == Assign(j, "L132", "progress", 60, "L135")

\* a _create_model that falls back to a default forest for any other type
_create_model_any(model_type) == TRUE

\* _create_model: a RandomForestClassifier for 'baseline' and 'advanced', else ValueError
_create_model_ok(model_type) == model_type \in {"baseline", "advanced"}

train_L135(j) ==
    /\ At(j, "L135")
    /\ IF _create_model_ok(job_obj[j].model_type)
       THEN Goto(j, "L138") /\ cur' = j /\ UNCHANGED exc
       ELSE Raise(j, "Unknown model type")
    /\ UNCHANGED <<training_jobs, job_obj, data, training_results, reply,
                   models_dir_exists, model_files>>
    /\ OthersIdle

train_L138(j) == Assign(j, "L138", "status", "evaluating", "L139")

train_L139(j) == Assign(j, "L139", "progress", 80, "L144")

train_L144(j) == Assign(j, "L144", "metrics", "computed", "L146")

train_L146(j) == Assign(j, "L146", "status", "saving", "L147")

train_L147(j) == Assign(j, "L147", "progress", 90, "L150")

\* joblib.dump(model, models/<model_version>.joblib) needs the directory
train_L150(j) ==
    /\ At(j, "L150")
    /\ IF models_dir_exists
       THEN /\ model_files' = model_files \cup {Version("legacy", IdPrefix(j))}
            /\ Goto(j, "L154")
            /\ cur' = j
            /\ UNCHANGED exc
       ELSE /\ Raise(j, "No such file or directory")
            /\ UNCHANGED model_files
    /\ UNCHANGED <<training_jobs, job_obj, data, training_results, reply,
                   models_dir_exists>>
    /\ OthersIdle

train_L154(j) == Assign(j, "L154", "status", "completed", "L155")

train_L155(j) == Assign(j, "L155", "progress", 100, "L156")

train_L156(j) ==
    Assign(j, "L156", "model_version", Version("legacy", IdPrefix(j)), "L157")

train_L157(j) ==
    /\ At(j, "L157")
    /\ job_obj' = [job_obj EXCEPT ![j]["end_time"] = "utcnow"]
    /\ Finish(j, "done")
    /\ UNCHANGED <<training_jobs, reply, models_dir_exists, model_files>>
    /\ OthersIdle

\* except Exception as e: logger.error(...)
train_L162(j) ==
    /\ At(j, "L162")
    /\ Goto(j, "L163")
    /\ cur' = j
    /\ UNCHANGED <<training_jobs, job_obj, exc, data, training_results, reply,
                   models_dir_exists, model_files>>
    /\ OthersIdle

\* a handler that logs the error and leaves the status as it is
train_L163_log_only(j) ==
    /\ At(j, "L163")
    /\ Goto(j, "L164")
    /\ cur' = j
    /\ UNCHANGED <<training_jobs, job_obj, exc, data, training_results, reply,
                   models_dir_exists, model_files>>
    /\ OthersIdle

\* self.training_jobs[training_id]["status"] = "failed": a KeyError here leaves the
\* coroutine
train_L163(j) ==
    /\ At(j, "L163")
    /\ IF j \in training_jobs
       THEN /\ job_obj' = [job_obj EXCEPT ![j]["status"] = "failed"]
            /\ Goto(j, "L164")
            /\ cur' = j
            /\ UNCHANGED <<exc, data, training_results>>
       ELSE /\ Finish(j, "escaped")
            /\ UNCHANGED job_obj
    /\ UNCHANGED <<training_jobs, reply, models_dir_exists, model_files>>
    /\ OthersIdle

train_L164(j) ==
    /\ At(j, "L164")
    /\ job_obj' = [job_obj EXCEPT ![j]["error"] = exc[j]]
    /\ Finish(j, "done")
    /\ UNCHANGED <<training_jobs, reply, models_dir_exists, model_files>>
    /\ OthersIdle

_train_model(j) ==
    \/ train_L72(j) \/ train_L75(j) \/ train_L76(j)
    \/ train_L79_await(j) \/ feature_pipeline_initialize(j)
    \/ train_L81(j) \/ train_L82(j) \/ train_L87(j) \/ train_L88(j) \/ train_L91(j)
    \/ train_L94_await(j) \/ train_comprehensive_model(j)
    \/ train_L100(j) \/ train_L101(j) \/ train_L102(j) \/ train_L103(j)
    \/ train_L104(j) \/ train_L107(j)
    \/ train_L117(j) \/ train_L118(j) \/ train_L121(j) \/ train_L123(j)
    \/ train_L124(j) \/ train_L127(j) \/ train_L131(j) \/ train_L132(j)
    \/ train_L135(j) \/ train_L138(j) \/ train_L139(j) \/ train_L144(j)
    \/ train_L146(j) \/ train_L147(j) \/ train_L150(j)
    \/ train_L154(j) \/ train_L155(j) \/ train_L156(j) \/ train_L157(j)
    \/ train_L162(j) \/ train_L163(j) \/ train_L164(j)

NextTraining ==
    \/ TrainingService_initialize
    \/ \E req \in TrainingRequests : start_training(req[1], req[2])
    \/ \E j \in JobIds : get_training_status(j)
    \/ get_training_status_return
    \/ TrainingService_cleanup
    \/ \E j \in JobIds : _train_model(j)


---------------------------------------------------------------------------
(* The feature lists *)

\* predict.py, _prepare_features: expected_features
expected_features ==
    <<"work_hours_per_week", "meeting_hours_per_week", "email_count_per_day",
      "stress_level", "workload_score", "work_life_balance", "team_size",
      "remote_work_percentage", "overtime_hours", "deadline_pressure">>

\* train.py, _load_training_data: feature_columns
feature_columns ==
    <<"work_hours_per_week", "meeting_hours_per_week", "email_count_per_day",
      "stress_level", "workload_score", "work_life_balance", "team_size",
      "remote_work_percentage", "overtime_hours", "deadline_pressure">>

\* evaluate.py, _get_feature_names
_get_feature_names ==
    <<"work_hours_per_week", "meeting_hours_per_week", "email_count_per_day",
      "stress_level", "workload_score", "work_life_balance", "team_size",
      "remote_work_percentage", "overtime_hours", "deadline_pressure">>

\* simple_model.py, BurnoutPredictionModel.__init__: self.feature_names
BurnoutPredictionModel_feature_names ==
    <<"work_hours_per_week", "meeting_hours_per_week", "email_count_per_day",
      "stress_level", "workload_score", "work_life_balance", "overtime_hours",
      "deadline_pressure", "team_size", "remote_work_percentage">>

\* BurnoutPredictionModel.predict_single, lines 155-162: the risk level of
\* risk_score = probability[1], in tenths
predict_single_risk_level(risk_score) ==
    IF risk_score < 3 THEN "low"
    ELSE IF risk_score < 6 THEN "medium"
    ELSE IF risk_score < 8 THEN "high"
    ELSE "critical"

\* a StandardScaler or RandomForestClassifier: not fitted, or fitted to training set d
Unfitted == [fitted_to |-> 0]
Fitted(d) == [fitted_to |-> d]

\* BurnoutPredictionModel.__init__
InitModel ==
    /\ bpm = [is_trained |-> FALSE, scaler |-> Unfitted, model |-> Unfitted,
              feature_names |-> BurnoutPredictionModel_feature_names]
    /\ bpm_files = [f \in {} |-> 0]
    /\ bpm_reply = NoReply

---------------------------------------------------------------------------
(* Values of a features mapping (Dict[str, Any]) *)

Num(v) == [k |-> "num", v |-> v]       \* an int or float of value v
Str == [k |-> "str", v |-> 0]          \* a string
NoneValue == [k |-> "none", v |-> 0]   \* None
BigInt == [k |-> "bigint", v |-> 0]    \* an int beyond the range of float, 10**400

\* features.get(name, default)
Get(features, name, default) ==
    IF name \in DOMAIN features THEN features[name] ELSE default

\* isinstance(value, (int, float))
IsIntOrFloat(value) == value.k \in {"num", "bigint"}

EmptyFeatures == [f \in {} |-> Num(0)]

\* every field present, each with a value of its own
DistinctFeatures ==
    [f \in {expected_features[i] : i \in 1..10} |->
        Num(10 + CHOOSE i \in 1..10 : expected_features[i] = f)]

\* the mappings predict is called with
FeatureInputs ==
    { EmptyFeatures,
      DistinctFeatures,
      [f \in {"work_hours_per_week", "stress_level", "workload_score",
              "work_life_balance"} |->
          CASE f = "work_hours_per_week" -> Num(60)
            [] f = "stress_level" -> Num(8)
            [] f = "workload_score" -> Num(9)
            [] f = "work_life_balance" -> Num(2)],
      [f \in {"work_hours_per_week", "stress_level", "workload_score",
              "work_life_balance"} |->
          CASE f = "work_hours_per_week" -> Num(50)
            [] f = "stress_level" -> Num(7)
            [] f = "workload_score" -> Num(8)
            [] f = "work_life_balance" -> Num(3)],
      [f \in {"work_hours_per_week", "workload_score"} |->
          IF f = "work_hours_per_week" THEN Num(60) ELSE Num(9)],
      [f \in {"stress_level"} |-> Str],
      [f \in {"team_size", "work_life_balance"} |->
          IF f = "team_size" THEN NoneValue ELSE Num(5)],
      [f \in {"email_count_per_day", "work_life_balance"} |->
          IF f = "email_count_per_day" THEN Str ELSE Num(5)],
      [f \in {"overtime_hours"} |-> BigInt] }

---------------------------------------------------------------------------
(* PredictionService *)

\* bound on the length of model_versions (initialize appends on every call)
MaxVersions == 4

\* the model files found on disk when the service is constructed
PreFiles == {Version("legacy", 1), Version("legacy", 2)}

Latest == Version("latest", 0)
DummyVersion == Version("dummy", 0)
UnknownVersion == Version("unknown", 0)

NoPrediction == [kind |-> "none"]
NoFrame == [kind |-> "none"]

UserIds == {"u1"}

InitPrediction ==
    /\ models = [v \in {} |-> "none"]
    /\ model_versions = <<>>
    /\ prediction = NoPrediction
    /\ frame = NoFrame

\* the prediction service touches neither the training service nor other objects
TrainingIdle == UNCHANGED <<task_vars, corrupt_files, model_vars, eval_vars, metrics_call, summary_call>>

\* os.listdir: the entries of a directory in arbitrary order
listdir(files) ==
    {order \in [1..Cardinality(files) -> files] :
        \A a, b \in 1..Cardinality(files) : a # b => order[a] # order[b]}

\* _create_dummy_model on a registry <<models, model_versions>>
_create_dummy_model(registry) ==
    <<(DummyVersion :> "dummy") @@ registry[1], Append(registry[2], DummyVersion)>>

\* the loop of _load_models over the listing: a file joblib.load fails on is skipped
load_listed(registry, order) ==
    LET loaded == SelectSeq(order, LAMBDA v : v \notin corrupt_files)
    IN  <<[v \in {loaded[i] : i \in 1..Len(loaded)} |-> "classifier"] @@ registry[1],
          registry[2] \o loaded>>

\* _load_models: the registry after loading; listdir_ok = FALSE is os.listdir raising
_load_models(registry, order, listdir_ok) ==
    IF listdir_ok
    THEN LET after == load_listed(registry, order)
         IN  IF DOMAIN after[1] = {} THEN _create_dummy_model(after) ELSE after
    ELSE _create_dummy_model(registry)

PredictionService_initialize ==
    /\ prediction = NoPrediction
    /\ Len(model_versions) + Cardinality(model_files) + 1 <= MaxVersions
    /\ models_dir_exists' = TRUE
    /\ \E order \in listdir(model_files), listdir_ok \in BOOLEAN :
        LET after == _load_models(<<models, model_versions>>, order, listdir_ok)
        IN  /\ models' = after[1]
            /\ model_versions' = after[2]
    /\ UNCHANGED <<model_files, prediction, frame>>
    /\ TrainingIdle

\* _prepare_features: float(value) of an int beyond the float range raises OverflowError
_prepare_features(features) ==
    LET value(i) == Get(features, expected_features[i], Num(0))
    IN  IF \E i \in 1..Len(expected_features) : value(i).k = "bigint"
        THEN [ok |-> FALSE, error |-> "OverflowError", feature_vector |-> <<>>]
        ELSE [ok |-> TRUE, error |-> None,
              feature_vector |->
                  [i \in 1..Len(expected_features) |->
                      IF IsIntOrFloat(value(i)) THEN value(i).v ELSE 0]]

\* the ladder with <= in place of <
_determine_risk_level_inclusive(risk_score) ==
    IF risk_score <= 3 THEN "low"
    ELSE IF risk_score <= 6 THEN "medium"
    ELSE IF risk_score <= 8 THEN "high"
    ELSE "critical"

\* risk scores and probabilities are counted in tenths: 3 is 0.3, 10 is 1.0
_determine_risk_level(risk_score) ==
    IF risk_score < 3 THEN "low"
    ELSE IF risk_score < 6 THEN "medium"
    ELSE IF risk_score < 8 THEN "high"
    ELSE "critical"

\* value > n and value < n in Python: an int or float compares, a str or None raises
\* TypeError
Comparable(value) == value.k \in {"num", "bigint"}
\* value >= n in place of value > n
Greater_or_equal(value, n) == IF value.k = "bigint" THEN TRUE ELSE value.v >= n

Greater(value, n) == IF value.k = "bigint" THEN TRUE ELSE value.v > n
Less(value, n) == IF value.k = "bigint" THEN FALSE ELSE value.v < n

Factor(name, value, impact, description) ==
    [name |-> name, value |-> value, impact |-> impact, description |-> description]

\* _analyze_factors: the factors dict, as its items in insertion order
_analyze_factors(features, risk_score) ==
    LET work_hours == Get(features, "work_hours_per_week", Num(0))
        stress_level == Get(features, "stress_level", Num(0))
        workload == Get(features, "workload_score", Num(0))
        work_life_balance == Get(features, "work_life_balance", Num(0))
    IN  IF \E x \in {work_hours, stress_level, workload, work_life_balance} :
              ~Comparable(x)
        THEN [ok |-> FALSE, error |-> "TypeError", factors |-> <<>>]
        ELSE [ok |-> TRUE, error |-> None,
              factors |->
                  (IF Greater(work_hours, 50)
                   THEN <<Factor("excessive_hours", work_hours, "high",
                                 "Working more than 50 hours per week")>>
                   ELSE <<>>)
                  \o (IF Greater(stress_level, 7)
                      THEN <<Factor("high_stress", stress_level, "high",
                                    "High stress level reported")>>
                      ELSE <<>>)
                  \o (IF Greater(workload, 8)
                      THEN <<Factor("heavy_workload", workload, "medium",
                                    "Heavy workload reported")>>
                      ELSE <<>>)
                  \o (IF Less(work_life_balance, 3)
                      THEN <<Factor("poor_work_life_balance", work_life_balance, "high",
                                    "Poor work-life balance")>>
                      ELSE <<>>)]

\* a test that looks for any factor at all, not for the named one
HasFactor_any(factors, name) == factors # <<>>

\* 'name' in factors
HasFactor(factors, name) == \E i \in 1..Len(factors) : factors[i].name = name

_generate_recommendations(risk_level, factors) ==
    (CASE risk_level = "low" ->
            <<"Continue maintaining healthy work habits",
              "Regularly monitor your stress levels">>
       [] risk_level = "medium" ->
            <<"Consider reducing work hours if possible",
              "Take regular breaks throughout the day",
              "Practice stress management techniques">>
       [] risk_level = "high" ->
            <<"Urgent: Reduce workload and work hours",
              "Schedule regular time off",
              "Consider speaking with your manager about workload",
              "Seek professional help if needed">>
       [] OTHER ->
            <<"Immediate action required: Take time off",
              "Contact HR or management immediately",
              "Consider professional counseling",
              "Review and adjust work responsibilities">>)
    \o (IF HasFactor(factors, "excessive_hours")
        THEN <<"Set strict work hour boundaries">> ELSE <<>>)
    \o (IF HasFactor(factors, "high_stress")
        THEN <<"Implement daily stress reduction activities">> ELSE <<>>)
    \o (IF HasFactor(factors, "poor_work_life_balance")
        THEN <<"Create clear boundaries between work and personal time">> ELSE <<>>)

\* what model.predict([v])[0] and model.predict_proba([v])[0] return, in tenths.
\* A fitted classifier gives the class of the larger probability (the first class
\* on a tie); the DummyModel draws each from uniform(0, 1) independently.
ModelOutputs(model) ==
    IF model = "dummy"
    THEN {[predict |-> u1, predict_proba |-> <<10 - u2, u2>>] : u1 \in 0..9, u2 \in 0..9}
    ELSE {[predict |-> IF p > 10 - p THEN 10 ELSE 0, predict_proba |-> <<10 - p, p>>] :
             p \in 0..10}

Max2(row) == IF row[1] >= row[2] THEN row[1] ELSE row[2]

\* lines 86-87: the version "latest" stands for
resolve_version(model_version) ==
    IF model_version = Latest
    THEN IF model_versions # <<>> THEN model_versions[Len(model_versions)]
         ELSE DummyVersion
    ELSE model_version

\* an exception leaves predict (logged and re-raised at lines 124-126)
Raised(error, features, requested, resolved, feature_vector) ==
    /\ prediction' = [kind |-> error]
    /\ frame' = [features |-> features, requested |-> requested,
                 model_version |-> resolved, feature_vector |-> feature_vector,
                 risk_prob |-> <<>>]

\* a predict that, instead of only failing on a version it does not find, registers
\* the dummy model for later calls
predict_registers_dummy(user_id, features, model_version) ==
    /\ prediction = NoPrediction
    /\ resolve_version(model_version) \notin DOMAIN models
    /\ Raised("ValueError", features, model_version, resolve_version(model_version), <<>>)
    /\ models' = (DummyVersion :> "dummy") @@ models
    /\ model_versions' = Append(model_versions, DummyVersion)
    /\ UNCHANGED disk_vars
    /\ TrainingIdle

\* predict, lines 82-126: the whole call, to the prediction it returns or the
\* exception it re-raises
predict(user_id, features, model_version) ==
    /\ prediction = NoPrediction
    /\ LET resolved == resolve_version(model_version)
           prepared == _prepare_features(features)
       IN  IF resolved \notin DOMAIN models
           THEN Raised("ValueError", features, model_version, resolved, <<>>)
           ELSE IF ~prepared.ok
           THEN Raised(prepared.error, features, model_version, resolved, <<>>)
           ELSE \E out \in ModelOutputs(models[resolved]) :
                LET risk_score == out.predict
                    risk_prob == out.predict_proba
                    risk_level == _determine_risk_level(risk_score)
                    analysed == _analyze_factors(features, risk_score)
                IN  IF ~analysed.ok
                    THEN Raised(analysed.error, features, model_version, resolved,
                                prepared.feature_vector)
                    ELSE /\ prediction' =
                               [kind |-> "prediction", user_id |-> user_id,
                                risk_level |-> risk_level, risk_score |-> risk_score,
                                confidence |-> Max2(risk_prob),
                                factors |-> analysed.factors,
                                recommendations |->
                                    _generate_recommendations(risk_level, analysed.factors),
                                model_version |-> resolved]
                         /\ frame' = [features |-> features, requested |-> model_version,
                                      model_version |-> resolved,
                                      feature_vector |-> prepared.feature_vector,
                                      risk_prob |-> risk_prob]
    /\ UNCHANGED <<models, model_versions, disk_vars>>
    /\ TrainingIdle

\* the call returns (or raises) to its caller
predict_return ==
    /\ prediction # NoPrediction
    /\ prediction' = NoPrediction
    /\ frame' = NoFrame
    /\ UNCHANGED <<models, model_versions, disk_vars>>
    /\ TrainingIdle

PredictionService_cleanup ==
    /\ prediction = NoPrediction
    /\ models' = [v \in {} |-> "none"]
    /\ model_versions' = <<>>
    /\ UNCHANGED <<prediction, frame, disk_vars>>
    /\ TrainingIdle

RequestedVersions == {Latest, DummyVersion, UnknownVersion} \cup PreFiles

NextPrediction ==
    \/ PredictionService_initialize
    \/ \E u \in UserIds, f \in FeatureInputs, v \in RequestedVersions : predict(u, f, v)
    \/ predict_return
    \/ PredictionService_cleanup

---------------------------------------------------------------------------
(* EvaluationService *)

\* number of evaluate calls in a run
MaxEvals == 2

\* uuid4 never repeats an id: the n-th call of evaluate draws the id n
EvalIds == 1..MaxEvals

NoCall ==
    [pc |-> "none", model_version |-> NoVersion, test_dataset_path |-> None,
     include_shap |-> FALSE, target_recall |-> 0, data |-> None,
     out |-> [kind |-> "none"]]

InitEvaluation ==
    /\ metrics_call = NoReply
    /\ summary_call = NoReply
    /\ evaluation_jobs = [e \in {} |-> 0]
    /\ eval_call = [e \in EvalIds |-> NoCall]
    /\ eval_reply = NoReply

\* the evaluation service touches neither the other services nor the model files
EvaluationOnly ==
    UNCHANGED <<train_vars, corrupt_files, predict_vars, model_vars, metrics_call, summary_call>>

\* the try block of _load_test_data (lines 235-258): what it returns, or the
\* exception raised inside it
_load_test_data_try(test_dataset_path) ==
    IF ~path_exists(test_dataset_path)
    THEN [ok |-> TRUE, data |-> "dummy", error |-> None]
    ELSE IF ~(endswith(test_dataset_path, ".csv") \/ endswith(test_dataset_path, ".json"))
    THEN [ok |-> FALSE, data |-> None, error |-> "Unsupported file format"]
    ELSE IF test_dataset_path = "bad.csv"
    THEN [ok |-> FALSE, data |-> None, error |-> "ParserError"]
    ELSE [ok |-> TRUE, data |-> "file", error |-> None]

\* a loader without the handler of lines 260-263: the exception reaches the caller
_load_test_data_reraise(test_dataset_path) == _load_test_data_try(test_dataset_path)

\* _load_test_data: every exception of the try block is caught at line 260 and the
\* dummy test data returned
_load_test_data(test_dataset_path) ==
    LET tried == _load_test_data_try(test_dataset_path)
    IN  IF tried.ok THEN tried
        ELSE [ok |-> TRUE, data |-> "dummy", error |-> None]

\* len(X_test): _generate_dummy_test_data makes 200 rows, a file has its own count
test_samples(X_test) == IF X_test = "dummy" THEN "200" ELSE "rows of the file"

\* what comprehensive_evaluator.evaluate_model returns: a metrics dict, in percent
MetricOutcomes ==
    { [accuracy |-> 95, recall |-> 90, f1_score |-> 92],
      [accuracy |-> 65, recall |-> 50, f1_score |-> 55] }

\* the target_recall arguments, in percent (0.85 is the default)
TargetRecalls == {85}

\* lines 198-209 with a first grade that asks for more than 0.9
assessment_above(accuracy, recall, target_recall) ==
    IF accuracy > 90 /\ recall >= target_recall
    THEN [performance_grade |-> "A", recommendation |-> "Model ready for production"]
    ELSE IF accuracy >= 80 /\ recall * 10 >= target_recall * 9
    THEN [performance_grade |-> "B", recommendation |-> "Model acceptable with monitoring"]
    ELSE IF accuracy >= 70
    THEN [performance_grade |-> "C", recommendation |-> "Model needs improvement"]
    ELSE [performance_grade |-> "D", recommendation |-> "Model not suitable for production"]

\* lines 198-209: the grade and its recommendation, set together in one branch of
\* the ladder (percent: recall >= target_recall * 0.9 is recall * 10 >= target * 9)
assessment(accuracy, recall, target_recall) ==
    IF accuracy >= 90 /\ recall >= target_recall
    THEN [performance_grade |-> "A", recommendation |-> "Model ready for production"]
    ELSE IF accuracy >= 80 /\ recall * 10 >= target_recall * 9
    THEN [performance_grade |-> "B", recommendation |-> "Model acceptable with monitoring"]
    ELSE IF accuracy >= 70
    THEN [performance_grade |-> "C", recommendation |-> "Model needs improvement"]
    ELSE [performance_grade |-> "D", recommendation |-> "Model not suitable for production"]

\* lines 220-223 with the strength given from 0.95 on
accuracy_entries_late(accuracy) ==
    IF accuracy >= 95 THEN [strengths |-> <<"High accuracy">>, weaknesses |-> <<>>]
    ELSE IF accuracy < 70 THEN [strengths |-> <<>>, weaknesses |-> <<"Low accuracy">>]
    ELSE [strengths |-> <<>>, weaknesses |-> <<>>]

\* lines 220-223: what the accuracy appends to the two lists
accuracy_entries(accuracy) ==
    IF accuracy >= 85 THEN [strengths |-> <<"High accuracy">>, weaknesses |-> <<>>]
    ELSE IF accuracy < 70 THEN [strengths |-> <<>>, weaknesses |-> <<"Low accuracy">>]
    ELSE [strengths |-> <<>>, weaknesses |-> <<>>]

\* lines 215-218: what the recall appends; the weakness is a formatted text that
\* begins "Below recall target" and goes on with the two numbers
recall_entries(recall, target_recall) ==
    IF recall >= target_recall
    THEN [strengths |-> <<"Meets recall target">>, weaknesses |-> <<>>]
    ELSE [strengths |-> <<>>, weaknesses |-> <<"Below recall target">>]

\* lines 225-228: what the F1 score appends
f1_entries(f1) ==
    IF f1 >= 80 THEN [strengths |-> <<"Good F1 score">>, weaknesses |-> <<>>]
    ELSE IF f1 < 60 THEN [strengths |-> <<>>, weaknesses |-> <<"Poor F1 score">>]
    ELSE [strengths |-> <<>>, weaknesses |-> <<>>]

\* _generate_evaluation_summary, with the metrics and the target in percent; a
\* metric the dict lacks reads as 0.0 (metrics.get, lines 190, 195, 196)
_generate_evaluation_summary(metrics, target_recall) ==
    LET recall == Get(metrics, "recall", 0)
        accuracy == Get(metrics, "accuracy", 0)
        f1 == Get(metrics, "f1_score", 0)
        graded == assessment(accuracy, recall, target_recall)
    IN  [target_recall_met |-> recall >= target_recall,
         recall_gap |-> IF recall < target_recall THEN target_recall - recall ELSE 0,
         performance_grade |-> graded.performance_grade,
         recommendation |-> graded.recommendation,
         strengths |-> recall_entries(recall, target_recall).strengths
                       \o accuracy_entries(accuracy).strengths
                       \o f1_entries(f1).strengths,
         weaknesses |-> recall_entries(recall, target_recall).weaknesses
                        \o accuracy_entries(accuracy).weaknesses
                        \o f1_entries(f1).weaknesses]

\* the shap_analysis entry of an evaluation
NoShap == [kind |-> "None"]
ShapValues == [kind |-> "shap_values"]
ShapError(msg) == [kind |-> "error", error |-> msg]

\* lines 103-114: the evaluation dict of call e
Evaluation(e, metrics, shap_results) ==
    [kind |-> "evaluation",
     evaluation_id |-> e,
     model_version |-> eval_call[e].model_version,
     test_samples |-> test_samples(eval_call[e].data),
     model_type |-> "RandomForestClassifier",
     target_recall |-> eval_call[e].target_recall,
     metrics |-> metrics,
     business_metrics |-> "business metrics of y_test and y_pred",
     shap_analysis |-> shap_results,
     evaluation_summary |->
         _generate_evaluation_summary(metrics, eval_call[e].target_recall)]

\* lines 122-124: the exception is logged and raised to the caller of evaluate
EvaluateRaises(e, call, error) ==
    /\ eval_call' = [eval_call EXCEPT ![e] =
                        [call EXCEPT !.pc = "raised", !.out = [kind |-> error]]]
    /\ UNCHANGED evaluation_jobs

\* lines 100-120: the evaluation is built, stored under its id and returned
evaluate_L100(e, metrics, shap_results) ==
    /\ evaluation_jobs' = (e :> Evaluation(e, metrics, shap_results)) @@ evaluation_jobs
    /\ eval_call' = [eval_call EXCEPT ![e].pc = "returned",
                                      ![e].out = Evaluation(e, metrics, shap_results)]

\* an evaluate that records the attempt in the store before it checks the model
evaluate_L56_records_failure(model_version, test_dataset_path, include_shap, target_recall) ==
    /\ eval_reply = NoReply
    /\ \E e \in EvalIds :
        /\ eval_call[e].pc = "none"
        /\ \A i \in EvalIds : i < e => eval_call[i].pc # "none"
        /\ evaluation_jobs' = (e :> [kind |-> "failed"]) @@ evaluation_jobs
        /\ eval_call' = [eval_call EXCEPT ![e] =
                            [NoCall EXCEPT !.pc = "raised",
                                           !.model_version = model_version,
                                           !.test_dataset_path = test_dataset_path,
                                           !.out = [kind |-> "ValueError: not found"]]]
    /\ UNCHANGED eval_reply
    /\ EvaluationOnly

\* evaluate, lines 52-76: from the call to the first point where it suspends (the
\* awaited evaluate_model), or to the exception that ends it.  Every persisted model
\* is a RandomForestClassifier, which has predict_proba.
evaluate_L56(model_version, test_dataset_path, include_shap, target_recall) ==
    /\ eval_reply = NoReply
    /\ \E e \in EvalIds :
        /\ eval_call[e].pc = "none"
        /\ \A i \in EvalIds : i < e => eval_call[i].pc # "none"
        /\ LET call == [NoCall EXCEPT !.model_version = model_version,
                                      !.test_dataset_path = test_dataset_path,
                                      !.include_shap = include_shap,
                                      !.target_recall = target_recall]
               loaded == _load_test_data(test_dataset_path)
           IN  IF ~models_dir_exists \/ model_version \notin model_files
               THEN EvaluateRaises(e, call, "ValueError: not found")
               ELSE IF model_version \in corrupt_files
               THEN EvaluateRaises(e, call, "joblib.load failed")
               ELSE IF ~loaded.ok
               THEN EvaluateRaises(e, call, loaded.error)
               ELSE /\ eval_call' = [eval_call EXCEPT ![e] =
                                        [call EXCEPT !.pc = "L76_await",
                                                     !.data = loaded.data]]
                    /\ UNCHANGED evaluation_jobs
    /\ UNCHANGED eval_reply
    /\ EvaluationOnly

\* the awaited evaluate_model returns a metrics dict or raises; the call runs on to
\* the awaited SHAP analysis (lines 86-90) or, without it, to its end
comprehensive_evaluator_evaluate_model(e) ==
    /\ eval_reply = NoReply
    /\ eval_call[e].pc = "L76_await"
    /\ \/ EvaluateRaises(e, eval_call[e], "evaluate_model failed")
       \/ \E metrics \in MetricOutcomes :
            IF eval_call[e].include_shap
            THEN /\ eval_call' = [eval_call EXCEPT ![e].pc = "L90_await",
                                                   ![e].out = [kind |-> "none",
                                                               metrics |-> metrics]]
                 /\ UNCHANGED evaluation_jobs
            ELSE evaluate_L100(e, metrics, NoShap)
    /\ UNCHANGED eval_reply
    /\ EvaluationOnly

\* a SHAP analysis whose exception is not caught at line 95
shap_analyzer_analyze_model_uncaught(e) ==
    /\ eval_reply = NoReply
    /\ eval_call[e].pc = "L90_await"
    /\ \/ evaluate_L100(e, eval_call[e].out.metrics, ShapValues)
       \/ EvaluateRaises(e, eval_call[e], "SHAP analysis failed")
    /\ UNCHANGED eval_reply
    /\ EvaluationOnly

\* the awaited analyze_model returns its results or raises; an exception is caught
\* at line 95 and kept as {"error": str(e)}; then lines 100-120
shap_analyzer_analyze_model(e) ==
    /\ eval_reply = NoReply
    /\ eval_call[e].pc = "L90_await"
    /\ \E shap_results \in {ShapValues, ShapError("SHAP analysis failed")} :
        evaluate_L100(e, eval_call[e].out.metrics, shap_results)
    /\ UNCHANGED eval_reply
    /\ EvaluationOnly

\* a get_evaluation that hands the record over and drops it from the store
get_evaluation_pop(evaluation_id) ==
    /\ eval_reply = NoReply
    /\ eval_reply' = IF evaluation_id \notin DOMAIN evaluation_jobs
                     THEN [kind |-> "ValueError", evaluation_id |-> evaluation_id]
                     ELSE evaluation_jobs[evaluation_id]
    /\ evaluation_jobs' = [i \in DOMAIN evaluation_jobs \ {evaluation_id} |->
                              evaluation_jobs[i]]
    /\ UNCHANGED eval_call
    /\ EvaluationOnly

get_evaluation(evaluation_id) ==
    /\ eval_reply = NoReply
    /\ eval_reply' = IF evaluation_id \notin DOMAIN evaluation_jobs
                     THEN [kind |-> "ValueError", evaluation_id |-> evaluation_id]
                     ELSE evaluation_jobs[evaluation_id]
    /\ UNCHANGED <<evaluation_jobs, eval_call>>
    /\ EvaluationOnly

\* the call returns (or raises) to its caller
get_evaluation_return ==
    /\ eval_reply # NoReply
    /\ eval_reply' = NoReply
    /\ UNCHANGED <<evaluation_jobs, eval_call>>
    /\ EvaluationOnly

EvaluationService_cleanup ==
    /\ eval_reply = NoReply
    /\ evaluation_jobs' = [e \in {} |-> 0]
    /\ UNCHANGED <<eval_call, eval_reply>>
    /\ EvaluationOnly

\* the model versions evaluate is called with
EvaluatedVersions == PreFiles \cup {UnknownVersion}

\* the test datasets evaluate is called with (tiny.csv loads like data.csv here)
TestDatasetPaths == DatasetPaths \ {"tiny.csv"}

NextEvaluation ==
    \/ \E v \in EvaluatedVersions, p \in TestDatasetPaths, include_shap \in BOOLEAN,
          t \in TargetRecalls : evaluate_L56(v, p, include_shap, t)
    \/ \E e \in EvalIds : comprehensive_evaluator_evaluate_model(e)
    \/ \E e \in EvalIds : shap_analyzer_analyze_model(e)
    \/ \E e \in EvalIds : get_evaluation(e)
    \/ get_evaluation_return
    \/ EvaluationService_cleanup

---------------------------------------------------------------------------
(* EvaluationService._calculate_business_metrics *)

\* length of the label sequences
MaxLen == 5

\* the class labels: 0 is no burnout risk, 1 is burnout risk
Labels == {0, 1}

\* the pairs (y_true, y_pred) of equal length
LabelPairs ==
    UNION {[1..n -> Labels] \X [1..n -> Labels] : n \in 0..MaxLen}

\* the number of positions with true label a and predicted label b
Count(y_true, y_pred, a, b) ==
    Cardinality({i \in 1..Len(y_true) : y_true[i] = a /\ y_pred[i] = b})

\* the unpacking written as tn, fn, fp, tp
ravel_transposed(y_true, y_pred) ==
    LET labels == {y_true[i] : i \in 1..Len(y_true)} \cup {y_pred[i] : i \in 1..Len(y_pred)}
    IN  IF Cardinality(labels) = 2
        THEN LET lo == CHOOSE a \in labels : \A b \in labels : a <= b
                 hi == CHOOSE a \in labels : \A b \in labels : b <= a
             IN  <<Count(y_true, y_pred, lo, lo), Count(y_true, y_pred, hi, lo),
                   Count(y_true, y_pred, lo, hi), Count(y_true, y_pred, hi, hi)>>
        ELSE <<0, 0, 0, 0>>

\* lines 139-140: sklearn's confusion_matrix has a row and a column for each label
\* that occurs in y_true or y_pred, in sorted order; tn, fp, fn, tp are its entries
\* in row order when it is 2 by 2, and four zeros otherwise
ravel(y_true, y_pred) ==
    LET labels == {y_true[i] : i \in 1..Len(y_true)} \cup {y_pred[i] : i \in 1..Len(y_pred)}
    IN  IF Cardinality(labels) = 2
        THEN LET lo == CHOOSE a \in labels : \A b \in labels : a <= b
                 hi == CHOOSE a \in labels : \A b \in labels : b <= a
             IN  <<Count(y_true, y_pred, lo, lo), Count(y_true, y_pred, lo, hi),
                   Count(y_true, y_pred, hi, lo), Count(y_true, y_pred, hi, hi)>>
        ELSE <<0, 0, 0, 0>>

\* a / b if cond else 0.0, as a fraction
Ratio(a, b, cond) == IF cond THEN [num |-> a, den |-> b] ELSE [num |-> 0, den |-> 1]

cost_false_negative == 100
cost_false_positive == 10

\* _calculate_business_metrics(y_true, y_pred), lines 136-153 (y_pred_proba is None)
_calculate_business_metrics(y_true, y_pred) ==
    LET cm == ravel(y_true, y_pred)
        tn == cm[1]
        fp == cm[2]
        fn == cm[3]
        tp == cm[4]
        total_cost == (fn * cost_false_negative) + (fp * cost_false_positive)
    IN  [true_positive_rate |-> Ratio(tp, tp + fn, (tp + fn) > 0),
         false_positive_rate |-> Ratio(fp, fp + tn, (fp + tn) > 0),
         precision |-> Ratio(tp, tp + fp, (tp + fp) > 0),
         total_cost |-> total_cost,
         cost_per_prediction |-> Ratio(total_cost, Len(y_true), Len(y_true) > 0)]

\* a call of _calculate_business_metrics
business_metrics_call(y_true, y_pred) ==
    /\ metrics_call = NoReply
    /\ metrics_call' = [kind |-> "metrics", y_true |-> y_true, y_pred |-> y_pred,
                        metrics |-> _calculate_business_metrics(y_true, y_pred)]
    /\ UNCHANGED <<train_vars, corrupt_files, predict_vars, model_vars, eval_vars, summary_call>>

\* the call returns
business_metrics_return ==
    /\ metrics_call # NoReply
    /\ metrics_call' = NoReply
    /\ UNCHANGED <<train_vars, corrupt_files, predict_vars, model_vars, eval_vars, summary_call>>

NextMetrics ==
    \/ \E pair \in LabelPairs : business_metrics_call(pair[1], pair[2])
    \/ business_metrics_return

---------------------------------------------------------------------------
(* EvaluationService._generate_evaluation_summary *)

\* metric values in percent, in steps of five around the thresholds of the summary
Percents == {50, 55, 60, 65, 70, 75, 80, 85, 90, 95, 100}

\* the target_recall arguments of the summary, in percent
SummaryTargets == {80, 85, 90}

\* metrics dicts: complete ones, and ones that lack keys
SummaryMetrics ==
    [accuracy : Percents, recall : Percents, f1_score : Percents]
    \cup [accuracy : {70, 90}, f1_score : {80}]
    \cup {[recall |-> 90], [precision |-> 90]}

\* a call of _generate_evaluation_summary
evaluation_summary_call(metrics, target_recall) ==
    /\ summary_call = NoReply
    /\ summary_call' = [kind |-> "summary", metrics |-> metrics,
                        target_recall |-> target_recall,
                        summary |-> _generate_evaluation_summary(metrics, target_recall)]
    /\ UNCHANGED <<train_vars, corrupt_files, predict_vars, model_vars, eval_vars,
                   metrics_call>>

\* the call returns
evaluation_summary_return ==
    /\ summary_call # NoReply
    /\ summary_call' = NoReply
    /\ UNCHANGED <<train_vars, corrupt_files, predict_vars, model_vars, eval_vars,
                   metrics_call>>

NextSummary ==
    \/ \E metrics \in SummaryMetrics, t \in SummaryTargets :
          evaluation_summary_call(metrics, t)
    \/ evaluation_summary_return

---------------------------------------------------------------------------
(* BurnoutPredictionModel *)

\* number of distinct training sets
MaxData == 2

\* the (X, y) train is called with: a good pair of training set d; an X the scaler
\* rejects; a good X with a y of another length, which the forest rejects
TrainInputs ==
    {[X |-> "ok", y |-> "ok", d |-> d] : d \in 1..MaxData}
    \cup {[X |-> "bad", y |-> "ok", d |-> d] : d \in {1}}
    \cup {[X |-> "ok", y |-> "bad", d |-> d] : d \in 1..MaxData}

\* the paths save_model and load_model are called with: two model files, and a
\* file that holds a bare classifier (as train.py writes them)
ModelPaths == {"a.pkl", "b.pkl", "legacy.joblib"}

\* the model touches no service
ModelOnly ==
    UNCHANGED <<train_vars, corrupt_files, predict_vars, eval_vars, metrics_call, summary_call>>

\* a call on the model starts when none is in progress and ends with a reply
Reply(op, kind) == [kind |-> kind, op |-> op]

\* train: scaler.fit_transform(X), then model.fit(X_scaled, y), then is_trained.
\* StandardScaler.fit resets the scaler before it validates X, so a rejected X
\* leaves it as it was or unfitted; a rejected y leaves the scaler fitted to X.
BurnoutPredictionModel_train(X_y) ==
    /\ bpm_reply = NoReply
    /\ IF X_y.X = "bad"
       THEN /\ \E scaler \in {bpm.scaler, Unfitted} :
                  bpm' = [bpm EXCEPT !.scaler = scaler]
            /\ bpm_reply' = Reply("train", "ValueError")
       ELSE IF X_y.y = "bad"
       THEN /\ bpm' = [bpm EXCEPT !.scaler = Fitted(X_y.d)]
            /\ bpm_reply' = Reply("train", "ValueError")
       ELSE /\ bpm' = [bpm EXCEPT !.scaler = Fitted(X_y.d), !.model = Fitted(X_y.d),
                                  !.is_trained = TRUE]
            /\ bpm_reply' = Reply("train", "ok")
    /\ UNCHANGED bpm_files
    /\ ModelOnly

\* scaler.transform of a scaler that is not fitted raises NotFittedError
Transformed(op) ==
    IF bpm.scaler = Unfitted THEN Reply(op, "NotFittedError") ELSE Reply(op, "ok")

BurnoutPredictionModel_predict ==
    /\ bpm_reply = NoReply
    /\ bpm_reply' = IF ~bpm.is_trained
                    THEN Reply("predict", "ValueError: must be trained")
                    ELSE Transformed("predict")
    /\ UNCHANGED <<bpm, bpm_files>>
    /\ ModelOnly

\* predict_single without the check of is_trained
BurnoutPredictionModel_predict_single_unchecked(features) ==
    /\ bpm_reply = NoReply
    /\ bpm_reply' =
          IF \E i \in 1..Len(bpm.feature_names) : bpm.feature_names[i] \notin DOMAIN features
          THEN Reply("predict_single", "KeyError")
          ELSE Transformed("predict_single")
    /\ UNCHANGED <<bpm, bpm_files>>
    /\ ModelOnly

\* predict_single: features[f] for f in self.feature_names raises KeyError for a
\* missing field; the result's risk level is the ladder of the probability
BurnoutPredictionModel_predict_single(features) ==
    /\ bpm_reply = NoReply
    /\ IF ~bpm.is_trained
       THEN bpm_reply' = Reply("predict_single", "ValueError: must be trained")
       ELSE IF \E i \in 1..Len(bpm.feature_names) :
                   bpm.feature_names[i] \notin DOMAIN features
       THEN bpm_reply' = Reply("predict_single", "KeyError")
       ELSE IF bpm.scaler = Unfitted
       THEN bpm_reply' = Reply("predict_single", "NotFittedError")
       ELSE \E p \in 0..10 :
               bpm_reply' = [kind |-> "ok", op |-> "predict_single",
                             prediction |-> IF p > 10 - p THEN 1 ELSE 0,
                             risk_score |-> p,
                             risk_level |-> predict_single_risk_level(p),
                             confidence |-> Max2(<<10 - p, p>>)]
    /\ UNCHANGED <<bpm, bpm_files>>
    /\ ModelOnly

BurnoutPredictionModel_evaluate ==
    /\ bpm_reply = NoReply
    /\ bpm_reply' = IF ~bpm.is_trained
                    THEN Reply("evaluate", "ValueError: must be trained")
                    ELSE Transformed("evaluate")
    /\ UNCHANGED <<bpm, bpm_files>>
    /\ ModelOnly

\* save_model: joblib.dump of the model_data dict; a bare classifier file is not
\* written by it
BurnoutPredictionModel_save_model(filepath) ==
    /\ bpm_reply = NoReply
    /\ filepath # "legacy.joblib"
    /\ IF ~bpm.is_trained
       THEN /\ bpm_reply' = Reply("save_model", "ValueError: must be trained")
            /\ UNCHANGED bpm_files
       ELSE /\ bpm_files' = [f \in DOMAIN bpm_files \cup {filepath} |->
                                IF f = filepath
                                THEN [model |-> bpm.model, scaler |-> bpm.scaler,
                                      feature_names |-> bpm.feature_names,
                                      is_trained |-> bpm.is_trained]
                                ELSE bpm_files[f]]
            /\ bpm_reply' = Reply("save_model", "ok")
    /\ UNCHANGED bpm
    /\ ModelOnly

\* load_model: joblib.load raises for a missing file; a bare classifier is not
\* subscriptable, so model_data['model'] raises TypeError before any assignment
BurnoutPredictionModel_load_model(filepath) ==
    /\ bpm_reply = NoReply
    /\ IF filepath = "legacy.joblib"
       THEN /\ bpm_reply' = Reply("load_model", "TypeError")
            /\ UNCHANGED bpm
       ELSE IF filepath \notin DOMAIN bpm_files
       THEN /\ bpm_reply' = Reply("load_model", "FileNotFoundError")
            /\ UNCHANGED bpm
       ELSE /\ bpm' = [model |-> bpm_files[filepath].model,
                       scaler |-> bpm_files[filepath].scaler,
                       feature_names |-> bpm_files[filepath].feature_names,
                       is_trained |-> bpm_files[filepath].is_trained]
            /\ bpm_reply' = Reply("load_model", "ok")
    /\ UNCHANGED bpm_files
    /\ ModelOnly

\* the call returns (or raises) to its caller
BurnoutPredictionModel_return ==
    /\ bpm_reply # NoReply
    /\ bpm_reply' = NoReply
    /\ UNCHANGED <<bpm, bpm_files>>
    /\ ModelOnly

\* the mappings predict_single is called with: complete, without a field, empty
SingleInputs ==
    { DistinctFeatures,
      [f \in DOMAIN DistinctFeatures \ {"team_size"} |-> DistinctFeatures[f]],
      EmptyFeatures }

NextModel ==
    \/ \E X_y \in TrainInputs : BurnoutPredictionModel_train(X_y)
    \/ BurnoutPredictionModel_predict
    \/ \E features \in SingleInputs : BurnoutPredictionModel_predict_single(features)
    \/ BurnoutPredictionModel_evaluate
    \/ \E filepath \in ModelPaths : BurnoutPredictionModel_save_model(filepath)
    \/ \E filepath \in ModelPaths : BurnoutPredictionModel_load_model(filepath)
    \/ BurnoutPredictionModel_return

---------------------------------------------------------------------------
(* Specifications *)

\* the training service, started with an empty models directory
Init ==
    /\ InitTraining
    /\ models_dir_exists = FALSE
    /\ model_files = {}
    /\ corrupt_files = {}
    /\ InitPrediction
    /\ InitModel
    /\ InitEvaluation

Spec == Init /\ [][NextTraining]_vars

\* the prediction service, constructed over whatever the models directory holds
InitPredict ==
    /\ InitTraining
    /\ models_dir_exists \in BOOLEAN
    /\ model_files \in SUBSET PreFiles
    /\ corrupt_files \in SUBSET model_files
    /\ ~models_dir_exists => model_files = {}
    /\ InitPrediction
    /\ InitModel
    /\ InitEvaluation

SpecPredict == InitPredict /\ [][NextPrediction]_vars

\* the evaluation service over a models directory that holds two persisted models,
\* the second of them a file joblib.load fails on
InitEval ==
    /\ InitTraining
    /\ models_dir_exists = TRUE
    /\ model_files = PreFiles
    /\ corrupt_files = {Version("legacy", 2)}
    /\ InitPrediction
    /\ InitModel
    /\ InitEvaluation

SpecEval == InitEval /\ [][NextEvaluation]_vars

\* the business metrics of every pair of label sequences
SpecMetrics == Init /\ [][NextMetrics]_vars

\* a BurnoutPredictionModel and the files it saves
SpecModel == Init /\ [][NextModel]_vars

\* the summary of every metrics dict and target
SpecSummary == Init /\ [][NextSummary]_vars

\* the training service under the event loop's scheduling: the loop's ready queue is
\* first-in first-out, so a task that is ready again and again is run; every awaited
\* pipeline step returns or raises; get_training_status has no suspension point, so
\* a call in progress returns
SpecFair ==
    /\ Spec
    /\ WF_vars(get_training_status_return)
    /\ \A j \in JobIds : SF_vars(_train_model(j))

---------------------------------------------------------------------------
(* Claims *)

TerminalStatus == {"completed", "failed"}

StatusRank(status) ==
    CASE status = "started" -> 0
      [] status = "initializing" -> 1
      [] status = "loading_data" -> 2
      [] status \in {"feature_engineering", "preprocessing"} -> 3
      [] status = "training" -> 4
      [] status = "evaluating" -> 5
      [] status = "saving" -> 6
      [] status \in {"completed", "failed"} -> 7

\* C2: a job's status only advances in the order started, initializing, loading_data,
\* feature_engineering or preprocessing, training, evaluating, saving, completed or
\* failed: no step takes it back to an earlier status
C2_StatusOnlyAdvances ==
    [][\A j \in DOMAIN job_obj :
          StatusRank(job_obj[j].status) <= StatusRank(job_obj'[j].status)]_vars

\* C3: no exception propagates out of _train_model, whatever start_training,
\* get_training_status and cleanup calls interleave with the task
C3_NoExceptionEscapes == \A j \in JobIds : pc[j] # "escaped"

\* C4: in a prediction, risk_score is the positive-class probability
\* predict_proba(vector)[1] and confidence is the maximum of that probability row
C4_ScoreIsPositiveProbability ==
    prediction.kind = "prediction"
        => /\ prediction.risk_score = frame.risk_prob[2]
           /\ prediction.confidence = Max2(frame.risk_prob)

\* C5: the risk level is the step function of the score (in tenths): [0, 0.3) low,
\* [0.3, 0.6) medium, [0.6, 0.8) high, [0.8, 1.0] critical, each boundary in the
\* higher level; in predict and in predict_single alike
StepLevel(s) ==
    CASE 0 <= s /\ s < 3 -> {"low"}
      [] 3 <= s /\ s < 6 -> {"medium"}
      [] 6 <= s /\ s < 8 -> {"high"}
      [] 8 <= s /\ s <= 10 -> {"critical"}
      [] OTHER -> {}

C5_RiskLevelIsStepFunction ==
    /\ prediction.kind = "prediction"
           => prediction.risk_level \in StepLevel(prediction.risk_score)
    /\ \A s \in 0..10 : predict_single_risk_level(s) \in StepLevel(s)

\* a prediction whose score is exactly the boundary 0.3
C5_Witness ==
    /\ prediction.kind = "prediction"
    /\ prediction.risk_score = 3
    /\ prediction.risk_level = "medium"

\* C6: model-not-found happens only for an explicit version that is not in the
\* registry; 'latest' always resolves, to the last loaded version or to the stub
C6_LatestAlwaysResolves ==
    prediction.kind = "ValueError"
        => /\ frame.requested # Latest
           /\ frame.requested \notin DOMAIN models

\* what the claim says vectorization returns for a mapping
ClaimedVector(features) ==
    [i \in 1..10 |->
        IF expected_features[i] \in DOMAIN features
           /\ features[expected_features[i]].k \in {"num", "bigint"}
        THEN features[expected_features[i]] ELSE Num(0)]

\* C7: vectorization never fails and returns the 10 values in the canonical order,
\* 0.0 for a missing or non-numeric field and its own value for a numeric one
C7_VectorizeIsTotal ==
    (prediction.kind # "none" /\ frame.model_version \in DOMAIN models)
        => /\ prediction.kind # "OverflowError"
           /\ Len(frame.feature_vector) = 10
           /\ \A i \in 1..10 :
                  Num(frame.feature_vector[i]) = ClaimedVector(frame.features)[i]

\* C8: the feature order is the same sequence in prediction, training, evaluation
\* and BurnoutPredictionModel
C8_FeatureOrderIsShared ==
    /\ expected_features = feature_columns
    /\ expected_features = _get_feature_names
    /\ expected_features = bpm.feature_names

\* get_training_status(j) reports a terminal status
ObservedTerminal(j) ==
    /\ j \in training_jobs
    /\ job_obj[j].status \in TerminalStatus

\* C9: every job start_training creates is eventually reported
\* 'completed' or 'failed' by get_training_status
C9_EveryJobObservedTerminal ==
    \A j \in JobIds : (pc[j] # "none") ~> ObservedTerminal(j)

\* what does hold: every job start_training creates is eventually reported 'completed'
\* or 'failed' by get_training_status, unless cleanup has removed it from the table
C9_EveryKeptJobTerminates ==
    \A j \in JobIds : (pc[j] # "none") ~> (j \notin training_jobs \/ ObservedTerminal(j))

\* a job still in the table whose task ended in a terminal status
C9_Witness ==
    \E j \in JobIds : pc[j] = "done" /\ ObservedTerminal(j)

\* C10: a report of 'completed' carries progress 100, a model_version and an
\* end_time; a report of 'failed' carries a non-empty error
C10_ReportsAreComplete ==
    reply.kind = "status"
        => /\ reply.status = "completed"
                => /\ reply.progress = 100
                   /\ reply.model_version # NoVersion
                   /\ reply.end_time # None
           /\ reply.status = "failed"
                => /\ reply.error # None
                   /\ reply.error # ""

\* get_training_status reports a completed job while another task is suspended
C10_Witness ==
    /\ reply.kind = "status"
    /\ reply.status = "completed"
    /\ \E j \in JobIds : pc[j] \in {"L79_await", "L94_await"}

\* the model types _train_model has a branch for
KnownModelTypes == {"comprehensive", "baseline", "advanced"}

C12_UnknownVersionLeavesStore ==
    [][\A e \in EvalIds :
          (/\ eval_call[e].pc = "none"
           /\ eval_call'[e].pc # "none"
           /\ eval_call'[e].model_version \notin model_files)
              => /\ eval_call'[e].pc = "raised"
                 /\ eval_call'[e].out.kind = "ValueError: not found"
                 /\ evaluation_jobs' = evaluation_jobs]_vars

\* an evaluate call failed with model-not-found while the store held a record
C12_Witness ==
    \E e \in EvalIds :
        /\ eval_call[e].pc = "raised"
        /\ eval_call[e].out.kind = "ValueError: not found"
        /\ eval_call[e].model_version \notin model_files
        /\ DOMAIN evaluation_jobs # {}

\* the keys of an evaluation dict
EvaluationKeys ==
    {"evaluation_id", "model_version", "test_samples", "model_type", "target_recall",
     "metrics", "business_metrics", "shap_analysis", "evaluation_summary"}

\* C13: whatever the awaited SHAP analysis does, the evaluate call returns: it
\* stores and returns an evaluation with every key, whose shap_analysis holds the
\* results or, when the analysis failed, an error field
C13_ShapFailureIsNotFatal ==
    [][\A e \in EvalIds :
          (eval_call[e].pc = "L90_await" /\ eval_call'[e].pc # "L90_await")
              => /\ eval_call'[e].pc = "returned"
                 /\ e \in DOMAIN evaluation_jobs'
                 /\ evaluation_jobs'[e] = eval_call'[e].out
                 /\ EvaluationKeys \subseteq DOMAIN eval_call'[e].out
                 /\ \/ eval_call'[e].out.shap_analysis = ShapValues
                    \/ /\ eval_call'[e].out.shap_analysis.kind = "error"
                       /\ eval_call'[e].out.shap_analysis.error # ""]_vars

\* an evaluate call returned an evaluation whose SHAP analysis had failed
C13_Witness ==
    \E e \in EvalIds :
        /\ eval_call[e].pc = "returned"
        /\ eval_call[e].out.shap_analysis.kind = "error"
        /\ e \in DOMAIN evaluation_jobs
        /\ evaluation_jobs[e] = eval_call[e].out

\* the step is a cleanup
IsEvaluationCleanup ==
    /\ evaluation_jobs' = [e \in {} |-> 0]
    /\ UNCHANGED <<eval_call, eval_reply>>

\* C14: the evaluation a successful evaluate returned is stored under its id when
\* the call returns; no step but cleanup removes or changes a stored evaluation;
\* get_evaluation returns the stored evaluation, the very one evaluate returned,
\* and fails with not-found exactly for an id that is not in the store (never
\* issued, not yet returned, or cleaned up)
C14_EvaluationsAreKept ==
    /\ [](/\ \A id \in DOMAIN evaluation_jobs :
                /\ id \in EvalIds
                /\ eval_call[id].pc = "returned"
                /\ evaluation_jobs[id] = eval_call[id].out
          /\ eval_reply.kind = "ValueError"
                => eval_reply.evaluation_id \notin DOMAIN evaluation_jobs
          /\ eval_reply.kind = "evaluation"
                => /\ eval_reply.evaluation_id \in DOMAIN evaluation_jobs
                   /\ eval_reply = eval_call[eval_reply.evaluation_id].out)
    /\ [][/\ \A e \in EvalIds :
                (eval_call[e].pc # "returned" /\ eval_call'[e].pc = "returned")
                    => /\ e \in DOMAIN evaluation_jobs'
                       /\ evaluation_jobs'[e] = eval_call'[e].out
          /\ \/ IsEvaluationCleanup
             \/ \A id \in DOMAIN evaluation_jobs :
                    /\ id \in DOMAIN evaluation_jobs'
                    /\ evaluation_jobs'[id] = evaluation_jobs[id]]_vars

\* get_evaluation returns the first evaluation after a second evaluate has returned
C14_Witness ==
    /\ eval_reply.kind = "evaluation"
    /\ eval_reply.evaluation_id = 1
    /\ eval_call[2].pc = "returned"
    /\ eval_reply = eval_call[1].out

\* the path exists and its extension is none of the supported ones
UnsupportedFormat(p) ==
    /\ path_exists(p)
    /\ ~(endswith(p, ".csv") \/ endswith(p, ".json"))

\* C18: a training job whose dataset exists with an unsupported extension ends
\* 'failed' with the unsupported-format error
C18_UnsupportedFormatFails ==
    \A j \in DOMAIN job_obj :
        (/\ UnsupportedFormat(job_obj[j].dataset_path)
         /\ job_obj[j].model_type \in {"baseline", "advanced"}
         /\ pc[j] = "done")
            => /\ job_obj[j].status = "failed"
               /\ job_obj[j].error = "Unsupported file format"

\* the dataset cannot be loaded: no such path, or the try block of the loader fails
LoadProblem(p) == ~path_exists(p) \/ ~_load_test_data_try(p).ok

\* C19: a dataset that is absent, or present but not readable, never makes the
\* loaders fail: the training loader returns the synthesized data for it, and an
\* evaluate call on it runs on the synthesized test data and raises no load error
C19_LoadProblemsFallBack ==
    /\ \A p \in DatasetPaths :
           (~path_exists(p) \/ ~_load_training_data_try(p).ok)
               => _load_training_data(p) = "dummy"
    /\ \A e \in EvalIds :
           (eval_call[e].pc # "none" /\ LoadProblem(eval_call[e].test_dataset_path))
               => /\ eval_call[e].out.kind \notin {"Unsupported file format", "ParserError"}
                  /\ eval_call[e].pc \in {"L76_await", "L90_await", "returned"}
                        => eval_call[e].data = "dummy"
                  /\ eval_call[e].pc = "returned"
                        => eval_call[e].out.test_samples = test_samples("dummy")

\* an evaluate call on a file that does not parse returned an evaluation
C19_Witness ==
    \E e \in EvalIds :
        /\ eval_call[e].test_dataset_path = "bad.csv"
        /\ eval_call[e].pc = "returned"
        /\ eval_call[e].data = "dummy"

\* the raw value of a field of the features predict was called with
Raw(name) == Get(frame.features, name, Num(0))

\* the factors the claim expects for the features of the call, in field order
ClaimedFactors ==
    (IF Raw("work_hours_per_week").v > 50
     THEN <<[name |-> "excessive_hours", impact |-> "high"]>> ELSE <<>>)
    \o (IF Raw("stress_level").v > 7
        THEN <<[name |-> "high_stress", impact |-> "high"]>> ELSE <<>>)
    \o (IF Raw("workload_score").v > 8
        THEN <<[name |-> "heavy_workload", impact |-> "medium"]>> ELSE <<>>)
    \o (IF Raw("work_life_balance").v < 3
        THEN <<[name |-> "poor_work_life_balance", impact |-> "high"]>> ELSE <<>>)

\* C15: the factors of a prediction are exactly those whose strict condition holds of
\* the raw input (work_hours_per_week > 50, stress_level > 7, workload_score > 8,
\* work_life_balance < 3), each with its impact, whatever the risk score is
C15_FactorsFollowRawInput ==
    prediction.kind = "prediction"
        => /\ Len(prediction.factors) = Len(ClaimedFactors)
           /\ \A i \in 1..Len(ClaimedFactors) :
                  /\ prediction.factors[i].name = ClaimedFactors[i].name
                  /\ prediction.factors[i].impact = ClaimedFactors[i].impact
           /\ \A s \in 0..10 :
                  _analyze_factors(frame.features, s).factors = prediction.factors

\* a prediction for an input that sits on every threshold (50, 7, 8) has no factor
\* for them
C15_Witness ==
    /\ prediction.kind = "prediction"
    /\ Raw("work_hours_per_week") = Num(50)
    /\ Raw("stress_level") = Num(7)
    /\ Raw("workload_score") = Num(8)
    /\ prediction.factors = <<>>

\* the fixed items of a risk level
LevelItems(risk_level) ==
    CASE risk_level = "low" ->
            <<"Continue maintaining healthy work habits",
              "Regularly monitor your stress levels">>
      [] risk_level = "medium" ->
            <<"Consider reducing work hours if possible",
              "Take regular breaks throughout the day",
              "Practice stress management techniques">>
      [] risk_level = "high" ->
            <<"Urgent: Reduce workload and work hours",
              "Schedule regular time off",
              "Consider speaking with your manager about workload",
              "Seek professional help if needed">>
      [] risk_level = "critical" ->
            <<"Immediate action required: Take time off",
              "Contact HR or management immediately",
              "Consider professional counseling",
              "Review and adjust work responsibilities">>

\* the number of fixed items of a risk level
LevelCount(risk_level) ==
    CASE risk_level = "low" -> 2
      [] risk_level = "medium" -> 3
      [] risk_level = "high" -> 4
      [] risk_level = "critical" -> 4

\* the tips of the factors present, in the order of the checks
FactorTips(factors) ==
    (IF \E i \in 1..Len(factors) : factors[i].name = "excessive_hours"
     THEN <<"Set strict work hour boundaries">> ELSE <<>>)
    \o (IF \E i \in 1..Len(factors) : factors[i].name = "high_stress"
        THEN <<"Implement daily stress reduction activities">> ELSE <<>>)
    \o (IF \E i \in 1..Len(factors) : factors[i].name = "poor_work_life_balance"
        THEN <<"Create clear boundaries between work and personal time">> ELSE <<>>)

\* C16: the recommendations of a prediction are the fixed items of its risk level (2
\* for low, 3 for medium, 4 for high and critical) followed by one tip for each of
\* excessive_hours, high_stress, poor_work_life_balance that is present, in that
\* order; heavy_workload adds nothing
C16_RecommendationsAreLevelThenTips ==
    prediction.kind = "prediction"
        => /\ Len(LevelItems(prediction.risk_level)) = LevelCount(prediction.risk_level)
           /\ prediction.recommendations =
                  LevelItems(prediction.risk_level) \o FactorTips(prediction.factors)
           /\ Len(prediction.recommendations) =
                  LevelCount(prediction.risk_level)
                  + Cardinality({i \in 1..Len(prediction.factors) :
                                    prediction.factors[i].name # "heavy_workload"})

\* a 'high' prediction with the factors excessive_hours and heavy_workload: the four
\* items of the level and the one tip
C16_Witness ==
    /\ prediction.kind = "prediction"
    /\ prediction.risk_level = "high"
    /\ Len(prediction.factors) = 2
    /\ prediction.factors[2].name = "heavy_workload"
    /\ Len(prediction.recommendations) = 5

\* the operations that check is_trained first
GuardedOps == {"predict", "predict_single", "evaluate", "save_model"}

FalseNegatives == Count(metrics_call.y_true, metrics_call.y_pred, 1, 0)
FalsePositives == Count(metrics_call.y_true, metrics_call.y_pred, 0, 1)

\* C20: for label sequences of equal length n, total_cost is 100 times the number of
\* false negatives plus 10 times the number of false positives, and
\* cost_per_prediction is total_cost / n, or 0 when n is 0
C20_TotalCostCountsErrors ==
    metrics_call # NoReply
        => /\ metrics_call.metrics.total_cost = 100 * FalseNegatives + 10 * FalsePositives
           /\ metrics_call.metrics.cost_per_prediction =
                  IF Len(metrics_call.y_true) = 0
                  THEN [num |-> 0, den |-> 1]
                  ELSE [num |-> 100 * FalseNegatives + 10 * FalsePositives,
                        den |-> Len(metrics_call.y_true)]

\* three false negatives and two false positives cost 320
C20_Witness ==
    /\ metrics_call # NoReply
    /\ FalseNegatives = 3
    /\ FalsePositives = 2
    /\ metrics_call.metrics.total_cost = 320

\* the metric the summary call in progress was given, 0 when the dict lacks it
Metric(name) == Get(summary_call.metrics, name, 0)

\* the recommendation that belongs to a grade
RecommendationOf(grade) ==
    CASE grade = "A" -> "Model ready for production"
      [] grade = "B" -> "Model acceptable with monitoring"
      [] grade = "C" -> "Model needs improvement"
      [] grade = "D" -> "Model not suitable for production"

\* C21: the summary's grade is A exactly when accuracy >= 0.9 and recall >=
\* target_recall, and D exactly when accuracy < 0.7; the grade is one of A, B, C, D
\* and comes with the recommendation of that grade; target_recall_met is
\* recall >= target_recall and recall_gap is max(0, target_recall - recall)
C21_GradeFollowsThresholds ==
    summary_call # NoReply =>
        LET summary == summary_call.summary
            target_recall == summary_call.target_recall
            accuracy == Metric("accuracy")
            recall == Metric("recall")
        IN  /\ summary.performance_grade \in {"A", "B", "C", "D"}
            /\ summary.performance_grade = "A"
                   <=> (accuracy >= 90 /\ recall >= target_recall)
            /\ summary.performance_grade = "D" <=> accuracy < 70
            /\ summary.recommendation = RecommendationOf(summary.performance_grade)
            /\ summary.target_recall_met <=> recall >= target_recall
            /\ summary.recall_gap =
                   IF target_recall - recall > 0 THEN target_recall - recall ELSE 0

\* a summary graded B with a recall five points under the target
C21_Witness ==
    /\ summary_call # NoReply
    /\ summary_call.summary.performance_grade = "B"
    /\ summary_call.summary.recall_gap = 5
    /\ ~summary_call.summary.target_recall_met

\* the entries of a list of the summary
Entries(list) == {list[i] : i \in 1..Len(list)}

\* C30: in every summary exactly one of the strength "Meets recall target" and the
\* weakness "Below recall target" is listed; a grade A comes with the strengths
\* "Meets recall target" and "High accuracy" and without a recall or accuracy
\* weakness; a grade D comes with the weakness "Low accuracy"
C30_SummaryIsConsistent ==
    summary_call # NoReply =>
        LET summary == summary_call.summary
            strengths == Entries(summary.strengths)
            weaknesses == Entries(summary.weaknesses)
        IN  /\ ("Meets recall target" \in strengths)
                   # ("Below recall target" \in weaknesses)
            /\ summary.performance_grade = "A"
                   => /\ {"Meets recall target", "High accuracy"} \subseteq strengths
                      /\ weaknesses \cap {"Below recall target", "Low accuracy"} = {}
            /\ summary.performance_grade = "D" => "Low accuracy" \in weaknesses

\* a summary graded A whose only weakness is the F1 score
C30_Witness ==
    /\ summary_call # NoReply
    /\ summary_call.summary.performance_grade = "A"
    /\ summary_call.summary.strengths = <<"Meets recall target", "High accuracy">>
    /\ summary_call.summary.weaknesses = <<"Poor F1 score">>

\* C22: the model version a completed job reports is a persisted model: its file is
\* in the models directory from the moment the job is "completed" and reports the
\* version, so that evaluate finds it (evaluate.py 61-63) and a prediction service
\* loads it (predict.py 40-47)
C22_ReportedVersionIsPersisted ==
    \A j \in DOMAIN job_obj :
        (job_obj[j].status = "completed" /\ job_obj[j].model_version # NoVersion)
            => (models_dir_exists /\ job_obj[j].model_version \in model_files)

\* the jobs that are completed and report a model version
Reporting == {j \in DOMAIN job_obj : /\ job_obj[j].status = "completed"
                                     /\ job_obj[j].model_version # NoVersion}

\* C23: the model version of a completed job carries the first 8 characters of the
\* job's id and a prefix that follows from the job's model_type: two jobs of
\* different model types report versions with different prefixes
C23_PrefixTellsModelType ==
    /\ \A j \in Reporting : job_obj[j].model_version.id = IdPrefix(j)
    /\ \A i, j \in Reporting :
           job_obj[i].model_type # job_obj[j].model_type
               => job_obj[i].model_version.prefix # job_obj[j].model_version.prefix

\* the background task of job j has started and not ended
TaskAlive(j) == pc[j] \notin {"none", "done", "escaped"}

\* this step writes the record of job i: it changes the dict or takes it out of
\* the table
WritesRecord(i) ==
    /\ i \in training_jobs
    /\ (i \notin training_jobs' \/ job_obj'[i] # job_obj[i])

\* C24: training jobs are independent: a step of the task of job j writes no record
\* but that of j, and while the task of a job is alive no other operation of the
\* service writes that job's record
C24_OneWriterPerRecord ==
    [][\A j \in JobIds :
          /\ _train_model(j) => \A i \in JobIds \ {j} : ~WritesRecord(i)
          /\ (TaskAlive(j) /\ WritesRecord(j)) => _train_model(j)]_vars

\* what does hold: the tasks of distinct jobs never write each other's records
TasksWriteOwnRecord ==
    [][\A j \in JobIds :
          _train_model(j) => \A i \in JobIds \ {j} : ~WritesRecord(i)]_vars

\* a step in which a predict call runs
IsPredict == prediction = NoPrediction /\ prediction' # NoPrediction

\* C25: predict leaves the model registry as it is: models and model_versions are
\* the same after the call as before it, whether it returns a prediction or raises
C25_PredictLeavesRegistry ==
    [][IsPredict => (models' = models /\ model_versions' = model_versions)]_vars

\* a predict call has failed after using a model of a registry of two versions
C25_Witness ==
    /\ prediction # NoPrediction
    /\ prediction.kind = "TypeError"
    /\ Len(model_versions) = 2
    /\ frame.model_version \in DOMAIN models

\* C26: the progress of a training job is always an integer from 0 to 100, and no
\* step makes it smaller, whatever the job's model_type
C26_ProgressOnlyGrows ==
    /\ [](\A j \in DOMAIN job_obj : job_obj[j].progress \in 0..100)
    /\ [][\A j \in DOMAIN job_obj :
              job_obj'[j].progress >= job_obj[j].progress]_vars

\* C27: whatever calls of initialize, predict and cleanup came before, the versions
\* in model_versions are exactly the keys of models and no version is listed
\* twice, so that list_models reports each available model once
C27_RegistryListsEachModelOnce ==
    /\ {model_versions[i] : i \in 1..Len(model_versions)} = DOMAIN models
    /\ \A a, b \in 1..Len(model_versions) :
           model_versions[a] = model_versions[b] => a = b

\* what does hold: the listed versions are exactly the keys of models
ListedVersionsAreLoaded ==
    {model_versions[i] : i \in 1..Len(model_versions)} = DOMAIN models

\* C28: a predict call whose version resolves and whose features were vectorized
\* returns a prediction, whatever the mapping holds: missing fields and values
\* that are not numbers do not make factor attribution or the recommendations fail
C28_VectorizedInputIsPredicted ==
    (/\ prediction # NoPrediction
     /\ frame.model_version \in DOMAIN models
     /\ Len(frame.feature_vector) = Len(expected_features))
        => prediction.kind = "prediction"

\* two fractions are the same number
SameRatio(p, q) == p.num * q.den = q.num * p.den

\* the counts of the label sequences of the business metrics call in progress
ActualCount(a, b) == Count(metrics_call.y_true, metrics_call.y_pred, a, b)

\* C29: true_positive_rate, false_positive_rate and precision are tp/(tp+fn),
\* fp/(fp+tn) and tp/(tp+fp) of the actual counts of the label sequences, 0.0 when
\* the denominator is 0, also when only one class occurs in both sequences
C29_RatesFollowActualCounts ==
    metrics_call # NoReply =>
        LET tp == ActualCount(1, 1)
            fn == ActualCount(1, 0)
            fp == ActualCount(0, 1)
            tn == ActualCount(0, 0)
            metrics == metrics_call.metrics
        IN  /\ SameRatio(metrics.true_positive_rate, Ratio(tp, tp + fn, tp + fn > 0))
            /\ SameRatio(metrics.false_positive_rate, Ratio(fp, fp + tn, fp + tn > 0))
            /\ SameRatio(metrics.precision, Ratio(tp, tp + fp, tp + fp > 0))

============================================================================
